---- MODULE Spec2Model ----
(***************************************************************************)
(* Hephaestus: the domain and certificate lifecycle (CreateDomain,         *)
(* DeleteDomain, RenewDomainCertificate) and the renewal scheduler, over   *)
(* a relational store with soft deletes and an append-only events table.   *)
(*                                                                         *)
(* Every handler is one action.  The scheduler sweep is one action for    *)
(* the listing and one action per loop iteration, so that requests may    *)
(* arrive between two iterations.  Time is counted in days.               *)
(***************************************************************************)
EXTENDS Integers, Sequences, FiniteSets, Bags, TLC

\* ---------------------------------------------------------------- bounds
MaxDomains == 2          \* domain rows ever committed
MaxEvents == 3           \* event rows ever committed
MaxFaults == 1           \* failures of the store, the CA, the disk or docker
MaxTicks == 1            \* clock advances
MaxSweeps == 1           \* scheduler sweeps
MaxPending == 1          \* clean-up goroutines not yet run
MaxInflight == 2         \* CreateDomain calls between their check and their writes
MaxClients == 3          \* clients of a registry
MaxPage == 4             \* page numbers requested
MaxPageSize == 4         \* page sizes requested
MaxTotal == 8            \* domains counted by GetDomainsCount

\* ------------------------------------------------------ program constants
RenewBeforeDays == 30    \* renewal threshold before expiry
ValidityDays == 90       \* lifetime of an issued certificate
StepDays == 60           \* days the clock advances at a time

NoId == 0                \* the empty id ""
NoTime == -1             \* SQL NULL in a timestamp column
NoClient == "nil"        \* a nil *clients.Client
Sentinel == "no"         \* the provider name that means "first client"

\* Names a configuration may give its providers, and the names looked up.
ProviderNames == {"cf", "hz", "CF"}
LookupNames == ProviderNames \cup {Sentinel, "c", ""}

\* Providers named in the configuration, in configuration order.
Configured == <<"cf", "hz">>

\* Registries CreateClients can build: the providers whose initialisation
\* succeeded, in configuration order, and at least one.
Registries == {<<"cf", "hz">>, <<"hz">>}

\* The requests POST /domains is exercised with.
CreateRequests ==
  { [Domain |-> "a", AltDomains |-> <<"x", "y">>, AutoRenew |-> TRUE,
     NginxContainerName |-> "ng", DNSProvider |-> "cf"],
    [Domain |-> "b", AltDomains |-> <<>>, AutoRenew |-> TRUE,
     NginxContainerName |-> "", DNSProvider |-> "no"],
    [Domain |-> "b", AltDomains |-> <<"x">>, AutoRenew |-> FALSE,
     NginxContainerName |-> "ng", DNSProvider |-> "hz"],
    [Domain |-> "a", AltDomains |-> <<>>, AutoRenew |-> TRUE,
     NginxContainerName |-> "ng", DNSProvider |-> "zz"] }

Names == {r.Domain : r \in CreateRequests}

VARIABLES
  db,        \* committed rows: domains, alternative_domains, certificates, events
  files,     \* artifact directories present below the storage directory
  cleanup,   \* arguments of the detached clean-up goroutines not yet run
  client,    \* Service.client: the provider registry
  clock,     \* time.Now(), in days
  sweep,     \* the scheduler goroutine: its listing and loop position
  running,   \* FALSE once a panic has ended the process
  last,      \* what the most recently finished handler call did and returned
  sweeps,    \* sweeps started so far
  faults,    \* failures injected so far
  inflight   \* CreateDomain calls past their existence check, not yet further

vars == <<db, files, cleanup, client, clock, sweep, running, last, sweeps, faults,
          inflight>>

\* ------------------------------------------------------------ the store
EmptyDB == [domains |-> {}, alts |-> {}, certs |-> {}, events |-> EmptyBag]

Tables == {"domains", "alternative_domains", "certificates", "events"}

Max(S) == CHOOSE m \in S : \A x \in S : x <= m

AllIds(d) == {r.id : r \in d.domains} \cup {r.id : r \in d.alts}
               \cup {r.id : r \in d.certs}

\* Ids are generated by the store and never repeat, in any table.
NextId(d) == IF AllIds(d) = {} THEN 1 ELSE Max(AllIds(d)) + 1

\* A write of a transaction: an insert of a row or an update of a row by id.
Ins(table, row) == [op |-> "insert", table |-> table, row |-> row, id |-> row.id]
Upd(table, id, set) == [op |-> "update", table |-> table, row |-> set, id |-> id]

SetFields(row, set) ==
  [f \in DOMAIN row |-> IF f \in DOMAIN set THEN set[f] ELSE row[f]]

UpdateRows(rows, id, set) ==
  {IF r.id = id THEN SetFields(r, set) ELSE r : r \in rows}

ApplyWrite(d, w) ==
  IF w.op = "insert"
    THEN CASE w.table = "domains" -> [d EXCEPT !.domains = @ \cup {w.row}]
           [] w.table = "alternative_domains" -> [d EXCEPT !.alts = @ \cup {w.row}]
           [] w.table = "certificates" -> [d EXCEPT !.certs = @ \cup {w.row}]
           [] OTHER -> [d EXCEPT !.events = @ (+) SetToBag({w.row})]
    ELSE CASE w.table = "domains" ->
                [d EXCEPT !.domains = UpdateRows(@, w.id, w.row)]
           [] w.table = "alternative_domains" ->
                [d EXCEPT !.alts = UpdateRows(@, w.id, w.row)]
           [] w.table = "certificates" ->
                [d EXCEPT !.certs = UpdateRows(@, w.id, w.row)]
           [] OTHER -> d

RECURSIVE ApplyWrites(_, _)
ApplyWrites(d, ws) ==
  IF ws = <<>> THEN d ELSE ApplyWrites(ApplyWrite(d, Head(ws)), Tail(ws))

\* tx.Commit: the writes of the transaction become visible together.
Commit(d, ws) == ApplyWrites(d, ws)

\* tx.Rollback: none of them does.
Rollback(d, ws) == d

EventRow(domainID, eventType) ==
  [id |-> NoId, domain_id |-> domainID, event_type |-> eventType]

\* writeEvent inside a transaction: one more write of that transaction.
writeEvent(domainID, eventType) == Ins("events", EventRow(domainID, eventType))

\* safeWriteEvent: writeEvent with a nil transaction, an insert of its own;
\* when the insert fails the error is logged and nothing else happens.
safeWriteEvent(d, domainID, eventType, evOk) ==
  IF evOk THEN ApplyWrite(d, writeEvent(domainID, eventType)) ELSE d

\* IsDomainExists: a domain of that name that is not deleted.
IsDomainExists(d, name) ==
  \E r \in d.domains : r.domain_name = name /\ r.status # "deleted"

\* ------------------------------------------------------------ providers
Matches(reg, name) == {i \in 1..Len(reg) : reg[i] = name}

\* ClientIndex taking the last client of the name.
ClientIndex_LastMatch(reg, name) ==
  IF name = Sentinel THEN 1
  ELSE IF Matches(reg, name) # {} THEN Max(Matches(reg, name))
  ELSE 0

\* The position in s.client of the client SelectClientByName returns, 0
\* when it returns nil and "client not found".
ClientIndex(reg, name) ==
  IF name = Sentinel THEN 1
  ELSE IF Matches(reg, name) # {}
    THEN CHOOSE i \in Matches(reg, name) : \A j \in Matches(reg, name) : i <= j
  ELSE 0

\* The client itself; clients are told apart by their names elsewhere.
SelectClientByName(reg, name) ==
  IF ClientIndex(reg, name) = 0 THEN NoClient ELSE reg[ClientIndex(reg, name)]

\* CreateCertificate: the validity window of a certificate issued at `now`.
CertificateData(now) == [ValidFrom |-> now, ValidTo |-> now + ValidityDays]

\* SaveCertificateFiles: the directory of the domain below the storage
\* directory holds the files afterwards; the paths are derived from the name.
SaveCertificateFiles(fs, domain) == fs \cup {domain}

CertPath(domain) == domain

\* ------------------------------------------------------------ CreateDomain
\* Failures a CreateDomain call can meet, named after the call that fails.
CreateTxFaults == {"insert_domain", "insert_alt", "insert_cert", "update", "commit"}
CreateFaults == {"none", "exists_err", "issue", "save", "begin"} \cup CreateTxFaults

\* What a handler call did: the store and the files it leaves, the id and
\* the error it returns ("none" for nil), the calls to the certificate
\* authority it made, how its transaction ended ("none" when none was
\* opened), whether an event insert of it failed, the reload commands it
\* ran and whether it started a clean-up goroutine.
Outcome(d, fs, id, err, issued, tx, evFail) ==
  [db |-> d, files |-> fs, id |-> id, err |-> err, issued |-> issued,
   tx |-> tx, evFail |-> evFail, reloads |-> 0, spawned |-> FALSE]

DomainRow(id, req) ==
  [id |-> id, domain_name |-> req.Domain, dns_provider |-> req.DNSProvider,
   status |-> "pending", auto_renew |-> req.AutoRenew,
   nginx_container_name |-> req.NginxContainerName, deleted_at |-> NoTime]

AltRow(id, domainID, name) ==
  [id |-> id, domain_id |-> domainID, domain_name |-> name,
   status |-> "", deleted_at |-> NoTime]

CertRow(id, domainID, path, certData) ==
  [id |-> id, domain_id |-> domainID, cert_path |-> path,
   valid_from |-> certData.ValidFrom, valid_to |-> certData.ValidTo,
   deleted_at |-> NoTime]

\* CreateWrites without the update of the status.
CreateWrites_NoActivation(d, req, certData) ==
  LET domainID == NextId(d)
      n == Len(req.AltDomains)
  IN  <<Ins("domains", DomainRow(domainID, req))>>
      \o [i \in 1..n |->
            Ins("alternative_domains", AltRow(domainID + i, domainID, req.AltDomains[i]))]
      \o <<Ins("certificates",
               CertRow(domainID + n + 1, domainID, CertPath(req.Domain), certData))>>

\* The writes of the CreateDomain transaction, in program order.
CreateWrites(d, req, certData) ==
  LET domainID == NextId(d)
      n == Len(req.AltDomains)
  IN  <<Ins("domains", DomainRow(domainID, req))>>
      \o [i \in 1..n |->
            Ins("alternative_domains", AltRow(domainID + i, domainID, req.AltDomains[i]))]
      \o <<Ins("certificates",
               CertRow(domainID + n + 1, domainID, CertPath(req.Domain), certData))>>
      \o <<Upd("domains", domainID, [status |-> "active"])>>

CreateTxErr(f) ==
  CASE f = "insert_domain" -> "insert domain"
    [] f = "insert_alt" -> "insert alt domain"
    [] f = "insert_cert" -> "insert certificate"
    [] f = "update" -> "update domain status"
    [] OTHER -> "commit tx"

\* CreateIssueFailed recording nothing.
CreateIssueFailed_NoEvent(d, fs, evOk) ==
  Outcome(d, fs, NoId, "certificate creation failed", 1, "none", ~evOk)

\* The certificate authority refused: one `failed` event, nothing else.
CreateIssueFailed(d, fs, evOk) ==
  Outcome(safeWriteEvent(d, NoId, "failed", evOk), fs, NoId,
          "certificate creation failed", 1, "none", ~evOk)

\* CreateSaveFailed going on into the transaction.
CreateSaveFailed_WritesRows(d, fs, req, evOk) ==
  Outcome(safeWriteEvent(Commit(d, CreateWrites(d, req, CertificateData(0))),
                         NoId, "failed", evOk),
          SaveCertificateFiles(fs, req.Domain), NoId,
          "save certificate files", 1, "committed", ~evOk)

\* The files could not be written: one `failed` event, nothing else.
CreateSaveFailed(d, fs, req, evOk) ==
  Outcome(safeWriteEvent(d, NoId, "failed", evOk),
          SaveCertificateFiles(fs, req.Domain), NoId,
          "save certificate files", 1, "none", ~evOk)

\* CreateAborted without the rollback taking effect.
CreateAborted_NoRollback(d, fs, ws, f, evOk) ==
  Outcome(safeWriteEvent(Commit(d, ws), NoId, "failed", evOk), fs, NoId,
          CreateTxErr(f), 1, "rolledback", ~evOk)

\* The deferred function of CreateDomain on an error after BeginTx: roll
\* back, then record a `failed` event.  The return statement has already
\* set domainID to "".
CreateAborted(d, fs, ws, f, evOk) ==
  Outcome(safeWriteEvent(Rollback(d, ws), NoId, "failed", evOk), fs, NoId,
          CreateTxErr(f), 1, "rolledback", ~evOk)

\* CreateCommitted giving up when the `created` event cannot be written.
CreateCommitted_EventFatal(d, fs, ws, domainID, evOk) ==
  IF evOk
    THEN Outcome(safeWriteEvent(Commit(d, ws), domainID, "created", evOk), fs,
                 domainID, "none", 1, "committed", FALSE)
    ELSE Outcome(Rollback(d, ws), fs, NoId, "insert event", 1, "rolledback", TRUE)

\* CreateCommitted returning the error of the `created` event insert.
CreateCommitted_EventErrorReturned(d, fs, ws, domainID, evOk) ==
  Outcome(safeWriteEvent(Commit(d, ws), domainID, "created", evOk), fs,
          domainID, IF evOk THEN "none" ELSE "insert event", 1, "committed", ~evOk)

\* Commit, then the `created` event, best effort.
CreateCommitted(d, fs, ws, domainID, evOk) ==
  Outcome(safeWriteEvent(Commit(d, ws), domainID, "created", evOk), fs,
          domainID, "none", 1, "committed", ~evOk)

\* CreateAfterCheck writing each row at once instead of through the
\* transaction: what was inserted before the failing step stays.
CreateAfterCheck_KeepsEarlierRows(d, reg, fs, now, req, f, evOk) ==
  LET cl == SelectClientByName(reg, req.DNSProvider)
      certData == CertificateData(now)
      saved == SaveCertificateFiles(fs, req.Domain)
      ws == CreateWrites(d, req, certData)
      n == Len(req.AltDomains)
      before == CASE f = "insert_domain" -> 0
                  [] f = "insert_alt" -> 1
                  [] f = "insert_cert" -> 1 + n
                  [] f = "update" -> 2 + n
                  [] OTHER -> 0
  IN  IF cl = NoClient
        THEN Outcome(d, fs, NoId, "select DNS client", 0, "none", FALSE)
      ELSE IF f = "issue" THEN CreateIssueFailed(d, fs, evOk)
      ELSE IF f = "save" THEN CreateSaveFailed(d, fs, req, evOk)
      ELSE IF f = "begin"
        THEN Outcome(d, saved, NoId, "begin tx", 1, "none", FALSE)
      ELSE IF f \in CreateTxFaults
        THEN CreateAborted(Commit(d, SubSeq(ws, 1, before)), saved, ws, f, evOk)
      ELSE CreateCommitted(d, saved, ws, NextId(d), evOk)

\* CreateDomain from the selection of the client on, the existence check
\* passed.
CreateAfterCheck(d, reg, fs, now, req, f, evOk) ==
  LET cl == SelectClientByName(reg, req.DNSProvider)
      certData == CertificateData(now)
      saved == SaveCertificateFiles(fs, req.Domain)
      ws == CreateWrites(d, req, certData)
  IN  IF cl = NoClient
        THEN Outcome(d, fs, NoId, "select DNS client", 0, "none", FALSE)
      ELSE IF f = "issue" THEN CreateIssueFailed(d, fs, evOk)
      ELSE IF f = "save" THEN CreateSaveFailed(d, fs, req, evOk)
      ELSE IF f = "begin"
        THEN Outcome(d, saved, NoId, "begin tx", 1, "none", FALSE)
      ELSE IF f \in CreateTxFaults THEN CreateAborted(d, saved, ws, f, evOk)
      ELSE CreateCommitted(d, saved, ws, NextId(d), evOk)

\* CreateDomain that creates whatever it is asked for.
CreateDomain_NoExistsCheck(d, reg, fs, now, req, f, evOk) ==
  CreateCommitted(d, SaveCertificateFiles(fs, req.Domain),
                  CreateWrites(d, req, CertificateData(now)), NextId(d), evOk)

CreateDomain(d, reg, fs, now, req, f, evOk) ==
  IF f = "exists_err"
    THEN Outcome(d, fs, NoId, "check domain exists", 0, "none", FALSE)
  ELSE IF IsDomainExists(d, req.Domain)
    THEN Outcome(d, fs, NoId, "domain already exists", 0, "none", FALSE)
  ELSE CreateAfterCheck(d, reg, fs, now, req, f, evOk)

\* A failure can only be injected at a call the handler reaches.
CreateReaches(d, reg, req, f, evOk) ==
  LET pastChecks == /\ ~IsDomainExists(d, req.Domain)
                    /\ SelectClientByName(reg, req.DNSProvider) # NoClient
  IN  /\ f \notin {"none", "exists_err"} => pastChecks
      /\ f = "insert_alt" => Len(req.AltDomains) > 0
      /\ ~evOk => pastChecks /\ f \notin {"exists_err", "begin"}

NoCall == [op |-> "none", name |-> "", ret |-> NoId, err |-> "none", issued |-> 0,
           tx |-> "none", evFail |-> FALSE, reloads |-> 0, spawned |-> FALSE]

Done(op, name, o) ==
  [op |-> op, name |-> name, ret |-> o.id, err |-> o.err, issued |-> o.issued,
   tx |-> o.tx, evFail |-> o.evFail, reloads |-> o.reloads, spawned |-> o.spawned]

Idle == [active |-> FALSE, list |-> <<>>, idx |-> 0, now |-> 0, done |-> FALSE,
         invoked |-> {}, ticked |-> FALSE]

\* Returned letting the error of a failed rollback take over.
Returned_RollbackErrorWins(o, rbOk) ==
  IF o.tx = "rolledback" /\ ~rbOk THEN [o EXCEPT !.err = "rollback failed"] ELSE o

\* Whether tx.Rollback succeeds, for a call that rolls back.
RollbackResults(o) == IF o.tx = "rolledback" THEN BOOLEAN ELSE {TRUE}

\* What a call returns when its deferred function has run: the error of
\* tx.Rollback is dropped (CreateDomain, RenewDomainCertificate) or logged
\* (DeleteDomain), whether the rollback succeeded (rbOk) or not.
Returned(o, rbOk) == o

\* The rows committed stay within the bounds.
Room(d) == BagCardinality(d.events) <= MaxEvents

\* The failures a call meets: the failing call and the failing event insert.
Cost(f, evOk) == (IF f = "none" THEN 0 ELSE 1) + (IF evOk THEN 0 ELSE 1)

Create(req, f, evOk) ==
  /\ running
  /\ CreateReaches(db, client, req, f, evOk)
  /\ faults + Cost(f, evOk) <= MaxFaults
  /\ LET o == CreateDomain(db, client, files, clock, req, f, evOk)
     IN  /\ db' = o.db
         /\ files' = o.files
         /\ \E rbOk \in RollbackResults(o) : last' = Done("create", req.Domain, Returned(o, rbOk))
         /\ faults' = faults + Cost(f, evOk)
         /\ Cardinality(o.db.domains) <= MaxDomains
         /\ Room(o.db)
  /\ UNCHANGED <<cleanup, client, clock, sweep, running, sweeps, inflight>>

\* Two calls of CreateDomain overlap: a call passes its existence check, ...
CreateCheck(req) ==
  /\ running
  /\ req \notin inflight
  /\ Cardinality(inflight) < MaxInflight
  /\ ~IsDomainExists(db, req.Domain)
  /\ inflight' = inflight \cup {req}
  /\ UNCHANGED <<db, files, cleanup, client, clock, sweep, running, last, sweeps, faults>>

\* ... and goes on later, whatever has been committed in between.
CreateFinish(req, f, evOk) ==
  /\ running
  /\ req \in inflight
  /\ f # "exists_err"
  /\ f = "insert_alt" => Len(req.AltDomains) > 0
  /\ ~evOk => f # "begin" /\ SelectClientByName(client, req.DNSProvider) # NoClient
  /\ faults + Cost(f, evOk) <= MaxFaults
  /\ LET o == CreateAfterCheck(db, client, files, clock, req, f, evOk)
     IN  /\ db' = o.db
         /\ files' = o.files
         /\ \E rbOk \in RollbackResults(o) : last' = Done("create", req.Domain, Returned(o, rbOk))
         /\ faults' = faults + Cost(f, evOk)
         /\ Cardinality(o.db.domains) <= MaxDomains
         /\ Room(o.db)
  /\ inflight' = inflight \ {req}
  /\ UNCHANGED <<cleanup, client, clock, sweep, running, sweeps>>

\* ------------------------------------------------------------ DeleteDomain
DeleteFaults == {"none", "begin", "lookup", "subs", "update", "certs",
                 "update_cert", "event", "commit"}

\* GetIDByNameTx: the id of the domain of that name that is not deleted,
\* "" when there is none.
GetIDByNameTx(d, name) ==
  IF \E r \in d.domains : r.domain_name = name /\ r.deleted_at = NoTime
    THEN (CHOOSE r \in d.domains : r.domain_name = name /\ r.deleted_at = NoTime).id
    ELSE NoId

\* GetListOfSubDomains: the ids of the alternative domains of a domain that
\* are not deleted.
GetListOfSubDomains(d, domainID) ==
  {r.id : r \in {a \in d.alts : a.deleted_at = NoTime /\ a.domain_id = domainID}}

\* GetCertificatesByDomain: the certificate of a domain that is not
\* deleted; its ID is "" when there is none.
GetCertificatesByDomain(d, domainID) ==
  LET cs == {c \in d.certs : c.domain_id = domainID /\ c.deleted_at = NoTime}
  IN  IF cs = {} THEN [ID |-> NoId] ELSE [ID |-> (CHOOSE c \in cs : TRUE).id]

RECURSIVE SeqOf(_)
SeqOf(S) ==
  IF S = {} THEN <<>>
  ELSE LET m == CHOOSE x \in S : \A y \in S : x <= y
       IN  <<m>> \o SeqOf(S \ {m})

\* DeleteDomainWrites stamping the rows without changing their status.
DeleteDomainWrites_KeepsStatus(domainID, subDomains, now) ==
  <<Upd("domains", domainID, [deleted_at |-> now])>>
  \o [i \in 1..Len(subDomains) |->
        Upd("alternative_domains", subDomains[i], [deleted_at |-> now])]

\* updateDomains of DeleteDomain: the domain and its alternative domains
\* become deleted, all with the timestamp `now`.
DeleteDomainWrites(domainID, subDomains, now) ==
  <<Upd("domains", domainID, [status |-> "deleted", deleted_at |-> now])>>
  \o [i \in 1..Len(subDomains) |->
        Upd("alternative_domains", subDomains[i],
            [status |-> "deleted", deleted_at |-> now])]

\* The certificate of the domain, when there is one, gets the timestamp.
DeleteCertWrites(certs, now) ==
  IF certs.ID # NoId
    THEN <<Upd("certificates", certs.ID, [deleted_at |-> now])>>
    ELSE <<>>

DeleteWrites(d, domainID, now) ==
  DeleteDomainWrites(domainID, SeqOf(GetListOfSubDomains(d, domainID)), now)
  \o DeleteCertWrites(GetCertificatesByDomain(d, domainID), now)
  \o <<writeEvent(domainID, "deleted")>>

DeleteErr(f) ==
  CASE f = "lookup" -> "error while getting domain id"
    [] f = "subs" -> "error getting subdomains"
    [] f = "update" -> "error updating domain statuses"
    [] f = "certs" -> "error fetching certificates"
    [] f = "update_cert" -> "error updating certificate"
    [] f = "event" -> "error inserting event"
    [] OTHER -> "commit error"

\* The id DeleteDomain works on: the one of the request, or the one the
\* name resolves to when the request has a name.
DeleteTarget(d, filters) ==
  IF filters.DomainName # "" THEN GetIDByNameTx(d, filters.DomainName)
  ELSE filters.DomainID

\* DeleteDomain going on with the empty id when the name resolves to none.
DeleteDomain_NoNotFound(d, fs, now, filters, f) ==
  LET domainID == DeleteTarget(d, filters)
      ws == DeleteWrites(d, domainID, now)
  IN  IF f = "begin"
        THEN Outcome(d, fs, NoId, "failed to begin transaction", 0, "none", FALSE)
      ELSE IF f = "lookup"
        THEN Outcome(d, fs, NoId, DeleteErr(f), 0, "rolledback", FALSE)
      ELSE IF f # "none"
        THEN Outcome(Rollback(d, ws), fs, domainID, DeleteErr(f), 0, "rolledback",
                     f = "event")
      ELSE [Outcome(Commit(d, ws), fs, domainID, "none", 0, "committed", FALSE)
              EXCEPT !.spawned = TRUE]

\* DeleteDomain keeping what it wrote before a step failed.
DeleteDomain_NoRollback(d, fs, now, filters, f) ==
  LET domainID == DeleteTarget(d, filters)
      ws == DeleteWrites(d, domainID, now)
  IN  IF f = "begin"
        THEN Outcome(d, fs, NoId, "failed to begin transaction", 0, "none", FALSE)
      ELSE IF f = "lookup"
        THEN Outcome(d, fs, NoId, DeleteErr(f), 0, "rolledback", FALSE)
      ELSE IF filters.DomainName # "" /\ domainID = NoId
        THEN Outcome(d, fs, NoId, "domain doesn't exist", 0, "rolledback", FALSE)
      ELSE IF f # "none"
        THEN Outcome(Commit(d, ws), fs, domainID, DeleteErr(f), 0, "rolledback",
                     f = "event")
      ELSE [Outcome(Commit(d, ws), fs, domainID, "none", 0, "committed", FALSE)
              EXCEPT !.spawned = TRUE]

DeleteDomain(d, fs, now, filters, f) ==
  LET domainID == DeleteTarget(d, filters)
      ws == DeleteWrites(d, domainID, now)
  IN  IF f = "begin"
        THEN Outcome(d, fs, NoId, "failed to begin transaction", 0, "none", FALSE)
      ELSE IF f = "lookup"
        THEN Outcome(Rollback(d, <<>>), fs, NoId, DeleteErr(f), 0, "rolledback", FALSE)
      ELSE IF filters.DomainName # "" /\ domainID = NoId
        THEN Outcome(Rollback(d, <<>>), fs, NoId, "domain doesn't exist", 0,
                     "rolledback", FALSE)
      ELSE IF f # "none"
        THEN Outcome(Rollback(d, ws), fs, domainID, DeleteErr(f), 0, "rolledback",
                     f = "event")
      ELSE [Outcome(Commit(d, ws), fs, domainID, "none", 0, "committed", FALSE)
              EXCEPT !.spawned = TRUE]

DeleteReaches(d, filters, f) ==
  LET domainID == DeleteTarget(d, filters)
  IN  /\ f = "lookup" => filters.DomainName # ""
      /\ f \notin {"none", "begin", "lookup"} =>
           ~(filters.DomainName # "" /\ domainID = NoId)
      /\ f = "update_cert" => GetCertificatesByDomain(d, domainID).ID # NoId

\* DELETE /domains: by name, or by id with an empty name.
DeleteRequests(d) ==
  {[DomainID |-> NoId, DomainName |-> n] : n \in Names}
  \cup {[DomainID |-> r.id, DomainName |-> ""] : r \in d.domains}

Delete(filters, f) ==
  /\ running
  /\ DeleteReaches(db, filters, f)
  /\ faults + Cost(f, TRUE) <= MaxFaults
  /\ LET o == DeleteDomain(db, files, clock, filters, f)
     IN  /\ db' = o.db
         /\ files' = o.files
         /\ cleanup' = IF o.spawned THEN cleanup \cup {filters.DomainName} ELSE cleanup
         /\ Cardinality(cleanup') <= MaxPending
         /\ \E rbOk \in RollbackResults(o) :
              last' = Done("delete", filters.DomainName, Returned(o, rbOk))
         /\ faults' = faults + Cost(f, TRUE)
         /\ Room(o.db)
  /\ UNCHANGED <<client, clock, sweep, running, sweeps, inflight>>

\* DeleteCertificateFiles: the directory StorageDir/domain is removed with
\* everything below it; an empty name is the storage directory itself.
DeleteCertificateFiles(fs, domain) ==
  IF domain = "" THEN {} ELSE fs \ {domain}

\* The goroutine DeleteDomain starts after its commit.
CleanupTask(domain) ==
  /\ running
  /\ domain \in cleanup
  /\ cleanup' = cleanup \ {domain}
  /\ files' = IF SelectClientByName(client, Sentinel) = NoClient THEN files
              ELSE DeleteCertificateFiles(files, domain)
  /\ UNCHANGED <<db, client, clock, sweep, running, last, sweeps, faults, inflight>>

\* CleanupFails feeding its failure back into the result of DeleteDomain.
CleanupFails_Reports(domain) ==
  /\ running
  /\ domain \in cleanup
  /\ faults < MaxFaults
  /\ cleanup' = cleanup \ {domain}
  /\ faults' = faults + 1
  /\ last' = [last EXCEPT !.err = "error deleting certificate files"]
  /\ UNCHANGED <<db, files, client, clock, sweep, running, sweeps, inflight>>

\* The same goroutine when os.RemoveAll fails: the error is logged.
CleanupFails(domain) ==
  /\ running
  /\ domain \in cleanup
  /\ faults < MaxFaults
  /\ cleanup' = cleanup \ {domain}
  /\ faults' = faults + 1
  /\ UNCHANGED <<db, files, client, clock, sweep, running, last, sweeps, inflight>>

\* ------------------------------------------------- RenewDomainCertificate
RenewTxFaults == {"update_cert", "update_domain", "event", "commit"}
RenewFaults == {"none", "begin", "issue", "save", "reload"} \cup RenewTxFaults

\* The certificate of a domain as the listing joins it.
CertValidTo(d, domainID) ==
  LET cs == {c \in d.certs : c.domain_id = domainID}
  IN  IF cs = {} THEN NoTime ELSE (CHOOSE c \in cs : TRUE).valid_to

DomainsDTO(d, r) ==
  [ID |-> r.id, DomainName |-> r.domain_name, Status |-> r.status,
   AutoRenew |-> r.auto_renew, CertValidTo |-> CertValidTo(d, r.id),
   DNSProvider |-> r.dns_provider, NginxContainerName |-> r.nginx_container_name]

RowById(d, id) == CHOOSE r \in d.domains : r.id = id

\* GetDomainsList with empty filters: every domain, deleted ones included.
GetDomainsList(d) ==
  LET ids == SeqOf({r.id : r \in d.domains})
  IN  [i \in 1..Len(ids) |-> DomainsDTO(d, RowById(d, ids[i]))]

\* Issuance failed: the status update and the `failed` event are written
\* through the transaction of the call.
RenewIssueFailedWrites(domain) ==
  <<Upd("domains", domain.ID, [status |-> "update_failed"]),
    writeEvent(domain.ID, "failed")>>

\* Saving the files failed: the status update, through the same transaction.
RenewSaveFailedWrites(domain) ==
  <<Upd("domains", domain.ID, [status |-> "update_failed"])>>

\* RenewCertWrite inserting a certificate row of the domain.
RenewCertWrite_Inserts(domain, certData) ==
  Ins("certificates",
      CertRow(domain.ID + 100, domain.ID, CertPath(domain.DomainName), certData))

\* updateCertData: the entity is keyed by domain.ID in the map handed to
\* updateMany, which updates the row of the entity's table with that id.
RenewCertWrite(domain, certData) ==
  Upd("certificates", domain.ID,
      [cert_path |-> CertPath(domain.DomainName),
       valid_from |-> certData.ValidFrom, valid_to |-> certData.ValidTo])

RenewWrites(domain, certData) ==
  <<RenewCertWrite(domain, certData),
    Upd("domains", domain.ID, [status |-> "active"]),
    writeEvent(domain.ID, "renewed")>>

RenewTxErr(f) ==
  CASE f = "update_cert" -> "failed to update certificate"
    [] f = "update_domain" -> "failed to update domain status"
    [] f = "event" -> "failed to insert event"
    [] OTHER -> "failed commit"

\* RenewAborted taking the committed events with it.
RenewAborted_DropsEvents(d, fs, domain, ws, err, evFail) ==
  Outcome([Rollback(d, ws) EXCEPT !.events = EmptyBag], fs, domain.ID, err, 1,
          "rolledback", evFail)

\* The deferred function of RenewDomainCertificate rolls the transaction
\* back whenever the function-level err is not nil when the call ends.
RenewAborted(d, fs, domain, ws, err, evFail) ==
  Outcome(Rollback(d, ws), fs, domain.ID, err, 1, "rolledback", evFail)

\* ReloadCommands running docker whatever the container name is.
ReloadCommands_Always(domain) == 1

\* reloadNginxInContainer: no command without a container name.
ReloadCommands(domain) == IF domain.NginxContainerName = "" THEN 0 ELSE 1

\* RenewCommitted undoing the renewal when the reload fails.
RenewCommitted_ReloadRollsBack(d, fs, domain, ws, f) ==
  IF f = "reload"
    THEN Outcome(Rollback(d, ws), fs, domain.ID,
                 "certificate renewed but nginx reload failed", 1, "rolledback", FALSE)
    ELSE [Outcome(Commit(d, ws), fs, domain.ID, "none", 1, "committed", FALSE)
            EXCEPT !.reloads = ReloadCommands(domain)]

RenewCommitted(d, fs, domain, ws, f) ==
  [Outcome(Commit(d, ws), fs, domain.ID,
           IF f = "reload" THEN "certificate renewed but nginx reload failed"
           ELSE "none", 1, "committed", FALSE)
     EXCEPT !.reloads = ReloadCommands(domain)]

RenewDomainCertificate(d, reg, fs, now, domain, f, evOk) ==
  LET cl == SelectClientByName(reg, domain.DNSProvider)
      certData == CertificateData(now)
      saved == SaveCertificateFiles(fs, domain.DomainName)
  IN  IF f = "begin"
        THEN Outcome(d, fs, domain.ID, "failed to begin tx", 0, "none", FALSE)
      ELSE IF cl = NoClient
        \* the error of SelectClientByName is overwritten unread and
        \* CreateCertificate dereferences the nil client
        THEN Outcome(Rollback(d, <<>>), fs, domain.ID, "panic", 0, "rolledback", FALSE)
      ELSE IF f = "issue"
        THEN RenewAborted(d, fs, domain, RenewIssueFailedWrites(domain),
                          "failed to create new certificate", ~evOk)
      ELSE IF f = "save"
        THEN RenewAborted(d, saved, domain, RenewSaveFailedWrites(domain),
                          "failed to save cert files", FALSE)
      ELSE IF f \in RenewTxFaults
        THEN RenewAborted(d, saved, domain, RenewWrites(domain, certData),
                          RenewTxErr(f), f = "event")
      ELSE RenewCommitted(d, saved, domain, RenewWrites(domain, certData), f)

RenewReaches(reg, domain, f, evOk) ==
  /\ f \notin {"none", "begin"} => SelectClientByName(reg, domain.DNSProvider) # NoClient
  /\ f = "reload" => domain.NginxContainerName # ""
  /\ ~evOk => f = "issue" /\ SelectClientByName(reg, domain.DNSProvider) # NoClient

\* -------------------------------------------- RenewExpiringCertificates
\* Skipped without the auto-renew check.
Skipped_IgnoresAutoRenew(domain, now) ==
  \/ domain.Status = "deleted"
  \/ now < domain.CertValidTo - RenewBeforeDays

\* The loop body skips a listed domain that is deleted, not auto-renewed,
\* or more than 30 days away from the expiry of its listed certificate.
Skipped(domain, now) ==
  \/ domain.Status = "deleted"
  \/ ~domain.AutoRenew
  \/ now < domain.CertValidTo - RenewBeforeDays

\* One tick of the ticker, received by the goroutine at the head of its
\* loop: the listing, and time.Now() once for the loop.
SweepStart(f) ==
  /\ running
  /\ ~sweep.active
  /\ sweeps < MaxSweeps
  /\ sweeps' = sweeps + 1
  /\ LET list == IF f = "list" THEN <<>> ELSE GetDomainsList(db)
     IN  sweep' = [active |-> list # <<>>, list |-> list, idx |-> 1, now |-> clock,
                   done |-> list = <<>>, invoked |-> {}, ticked |-> FALSE]
  /\ last' = [NoCall EXCEPT !.op = "sweep",
                            !.err = IF f = "list" THEN "failed fetch domains" ELSE "none"]
  /\ UNCHANGED <<db, files, cleanup, client, clock, running, faults, inflight>>

Advance(sw, called) ==
  [sw EXCEPT !.idx = @ + 1,
             !.active = sw.idx + 1 <= Len(sw.list),
             !.done = sw.idx + 1 > Len(sw.list),
             !.invoked = IF called THEN @ \cup {sw.list[sw.idx].ID} ELSE @]

\* One iteration of the loop over the listing.
SweepStep(f, evOk) ==
  /\ running
  /\ sweep.active
  /\ LET domain == sweep.list[sweep.idx]
     IN  IF Skipped(domain, sweep.now)
           THEN /\ f = "none" /\ evOk
                /\ sweep' = Advance(sweep, FALSE)
                /\ last' = [NoCall EXCEPT !.op = "skip", !.name = domain.DomainName,
                                          !.ret = domain.ID]
                /\ UNCHANGED <<db, files, running, faults>>
           ELSE /\ RenewReaches(client, domain, f, evOk)
                /\ faults + Cost(f, evOk) <= MaxFaults
                /\ LET o == RenewDomainCertificate(db, client, files, clock, domain, f, evOk)
                   IN  /\ db' = o.db
                       /\ files' = o.files
                       /\ \E rbOk \in RollbackResults(o) :
                            last' = Done("renew", domain.DomainName, Returned(o, rbOk))
                       /\ faults' = faults + Cost(f, evOk)
                       /\ Room(o.db)
                       /\ running' = (o.err # "panic")
                       /\ sweep' = IF o.err = "panic"
                                     THEN [sweep EXCEPT !.invoked = @ \cup {domain.ID}]
                                     ELSE Advance(sweep, TRUE)
  /\ UNCHANGED <<cleanup, client, clock, sweeps, inflight>>

\* TickerFires starting a sweep of its own for every tick.
TickerFires_StartsSweep ==
  /\ running
  /\ sweep.active
  /\ LET list == GetDomainsList(db)
     IN  sweep' = [active |-> list # <<>>, list |-> list, idx |-> 1, now |-> clock,
                   done |-> list = <<>>, invoked |-> {}, ticked |-> FALSE]
  /\ UNCHANGED <<db, files, cleanup, client, clock, running, last, sweeps, faults,
                 inflight>>

\* The ticker fires while RenewExpiringCertificates is running: the tick
\* waits in ticker.C, which holds one tick and drops the others, until the
\* goroutine is back at the head of its loop.
TickerFires ==
  /\ running
  /\ sweep.active
  /\ sweep' = [sweep EXCEPT !.ticked = TRUE]
  /\ UNCHANGED <<db, files, cleanup, client, clock, running, last, sweeps, faults,
                 inflight>>

\* RenewDomainCertificate called on its own, for a listed domain.
RenewAdHoc(domain, f, evOk) ==
  /\ running
  /\ RenewReaches(client, domain, f, evOk)
  /\ faults + Cost(f, evOk) <= MaxFaults
  /\ LET o == RenewDomainCertificate(db, client, files, clock, domain, f, evOk)
     IN  /\ db' = o.db
         /\ files' = o.files
         /\ \E rbOk \in RollbackResults(o) :
              last' = Done("renew_adhoc", domain.DomainName, Returned(o, rbOk))
         /\ faults' = faults + Cost(f, evOk)
         /\ Room(o.db)
         /\ running' = (o.err # "panic")
  /\ UNCHANGED <<cleanup, client, clock, sweep, sweeps, inflight>>

\* -------------------------------------------------------------- GetDomains
\* The paging fields of the response of GetDomains for a request of the
\* page `page` of size `pageSize` when the repository counts
\* `totalElements` domains; the division is the one of Go on ints.
GetDomains(page, pageSize, totalElements) ==
  LET totalPages == (totalElements + page - 1) \div pageSize
      hasNext == page < totalPages
      hasPrev == page > 1
  IN  [op |-> "list", TotalPages |-> totalPages, Page |-> page, PageSize |-> pageSize,
       TotalElements |-> totalElements, HasNext |-> hasNext, HasPrev |-> hasPrev,
       NextPage |-> IF hasNext THEN page + 1 ELSE 0,
       PrevPage |-> IF hasPrev THEN page - 1 ELSE 0]

\* GET /domains, the count of the repository being any number.
List(page, pageSize, totalElements) ==
  /\ running
  /\ last' = GetDomains(page, pageSize, totalElements)
  /\ UNCHANGED <<db, files, cleanup, client, clock, sweep, running, sweeps, faults,
                 inflight>>

\* A call of SelectClientByName on its own.
Select(name) ==
  /\ last' = [NoCall EXCEPT !.op = "select", !.name = name,
                            !.ret = ClientIndex(client, name),
                            !.err = IF ClientIndex(client, name) = 0
                                      THEN "client not found" ELSE "none"]
  /\ UNCHANGED <<db, files, cleanup, client, clock, sweep, running, sweeps, faults,
                 inflight>>

\* ------------------------------------------------------------ environment
Tick ==
  /\ clock < MaxTicks * StepDays
  /\ clock' = clock + StepDays
  /\ UNCHANGED <<db, files, cleanup, client, sweep, running, last, sweeps, faults,
                 inflight>>

\* main: the process starts again; the registry is rebuilt from the
\* providers that initialise, the goroutines of the previous run are gone.
Restart ==
  /\ client' \in Registries
  /\ running' = TRUE
  /\ sweep' = Idle
  /\ cleanup' = {}
  /\ inflight' = {}
  /\ UNCHANGED <<db, files, clock, last, sweeps, faults>>

Init ==
  /\ db = EmptyDB
  /\ files = {}
  /\ cleanup = {}
  /\ client = Configured
  /\ clock = 0
  /\ sweep = Idle
  /\ running = TRUE
  /\ last = NoCall
  /\ sweeps = 0
  /\ faults = 0
  /\ inflight = {}

\* Any registry CreateClients can return: one client at least, the names
\* as configured, a name possibly more than once.
AnyRegistry == UNION {[1..n -> ProviderNames] : n \in 1..MaxClients}

InitLookup ==
  /\ db = EmptyDB
  /\ files = {}
  /\ cleanup = {}
  /\ client \in AnyRegistry
  /\ clock = 0
  /\ sweep = Idle
  /\ running = TRUE
  /\ last = NoCall
  /\ sweeps = 0
  /\ faults = 0
  /\ inflight = {}

\* The request handlers; the calls of CreateDomain may fail as in CF, those
\* of DeleteDomain as in DF, and event inserts succeed as in EV.
Requests(CF, DF, EV) ==
  \/ \E req \in CreateRequests, f \in CF, evOk \in EV : Create(req, f, evOk)
  \/ \E filters \in DeleteRequests(db), f \in DF : Delete(filters, f)
  \/ \E domain \in cleanup : CleanupTask(domain)
  \/ Tick

\* The scheduler; the listing may fail as in LF and the calls of
\* RenewDomainCertificate as in RF.
Scheduler(LF, RF, EV) ==
  \/ \E f \in LF : SweepStart(f)
  \/ \E f \in RF, evOk \in EV : SweepStep(f, evOk)

Ok == {"none"}

\* The whole program, failures anywhere.
Next ==
  \/ Requests(CreateFaults, DeleteFaults, BOOLEAN)
  \/ Scheduler({"none", "list"}, RenewFaults, BOOLEAN)
  \/ \E domain \in cleanup : CleanupFails(domain)
  \/ TickerFires
  \/ Restart

Spec == Init /\ [][Next]_vars

\* The request handlers on their own, with their failures.
NextRequests ==
  \/ Requests(CreateFaults, DeleteFaults, BOOLEAN)
  \/ \E domain \in cleanup : CleanupFails(domain)

SpecRequests == Init /\ [][NextRequests]_vars

\* The scheduler with its failures, next to requests that succeed.
NextSweep ==
  \/ Requests(Ok, Ok, {TRUE})
  \/ Scheduler({"none", "list"}, RenewFaults, BOOLEAN)
  \/ Restart

SpecSweep == Init /\ [][NextSweep]_vars

\* The same with callers of RenewDomainCertificate other than the sweep.
DTOs(d) == {GetDomainsList(d)[i] : i \in 1..Len(GetDomainsList(d))}

NextAdHoc ==
  \/ Requests(Ok, Ok, {TRUE})
  \/ Scheduler(Ok, Ok, {TRUE})
  \/ Restart
  \/ \E domain \in DTOs(db) : RenewAdHoc(domain, "none", TRUE)

SpecAdHoc == Init /\ [][NextAdHoc]_vars

\* Requests served at the same time: calls of CreateDomain overlap.
NextConcurrent ==
  \/ Requests(Ok, Ok, {TRUE})
  \/ \E req \in CreateRequests : CreateCheck(req)
  \/ \E req \in inflight : CreateFinish(req, "none", TRUE)

SpecConcurrent == Init /\ [][NextConcurrent]_vars

\* The ticker firing at any time, sweeps in progress included.
NextTicker ==
  \/ Requests(Ok, Ok, {TRUE})
  \/ Scheduler(Ok, Ok, {TRUE})
  \/ TickerFires

SpecTicker == Init /\ [][NextTicker]_vars

\* Lookups of clients, in any registry.
NextLookup == \E name \in LookupNames : Select(name)

SpecLookup == InitLookup /\ [][NextLookup]_vars

\* Listings, page by page.
NextPages ==
  \E page \in 1..MaxPage, pageSize \in 1..MaxPageSize, totalElements \in 0..MaxTotal :
    List(page, pageSize, totalElements)

SpecPages == Init /\ [][NextPages]_vars

\* Failures once the transaction of a call is open, in each of the three
\* workflows.
NextTx ==
  \/ Requests({"none", "begin"} \cup CreateTxFaults, DeleteFaults, {TRUE})
  \/ Scheduler(Ok, RenewFaults, {TRUE})

SpecTx == Init /\ [][NextTx]_vars

\* Event inserts that fail, in each of the three workflows.
NextEvents ==
  \/ Requests(Ok, {"none", "event"}, BOOLEAN)
  \/ Scheduler(Ok, {"none", "event"}, {TRUE})

SpecEvents == Init /\ [][NextEvents]_vars

\* ------------------------------------------------------------------ claims
Named(d, n) == {r \in d.domains : r.domain_name = n}
Live(d, n) == {r \in Named(d, n) : r.status # "deleted"}
Rows(d) == <<d.domains, d.alts, d.certs>>
OneMore(d, e) == d.events (+) SetToBag({e})

\* C1 as stated: when a Create of n has just succeeded, the next Create of
\* n returns "domain already exists" without asking the certificate
\* authority, and exactly one domain row has the name n afterwards.
C1_AsStated ==
  [][\A req \in CreateRequests :
       (/\ last.op = "create" /\ last.name = req.Domain /\ last.err = "none"
        /\ Create(req, "none", TRUE))
       => /\ last'.err = "domain already exists"
          /\ last'.issued = 0
          /\ Cardinality(Named(db', req.Domain)) = 1]_vars

\* C1 amended: ... and exactly one domain row that is not deleted has the
\* name n afterwards (rows of earlier, deleted domains of that name remain).
C1_SecondCreateRejected ==
  [][\A req \in CreateRequests :
       (/\ last.op = "create" /\ last.name = req.Domain /\ last.err = "none"
        /\ Create(req, "none", TRUE))
       => /\ last'.err = "domain already exists"
          /\ last'.issued = 0
          /\ Rows(db') = Rows(db)
          /\ Cardinality(Live(db', req.Domain)) = 1]_vars

C1_Witness ==
  /\ last.op = "create" /\ last.err = "domain already exists" /\ last.issued = 0
  /\ Cardinality(Live(db, last.name)) = 1
  /\ Cardinality(Named(db, last.name)) = 2

\* C2: when the certificate authority fails during Create and the event
\* insert succeeds, no domain, alternative-domain or certificate row is
\* written, no transaction is opened, and exactly one `failed` event with
\* an empty domain id is added.
C2_IssuanceFailure ==
  [][\A req \in CreateRequests :
       Create(req, "issue", TRUE)
       => /\ Rows(db') = Rows(db)
          /\ last'.tx = "none"
          /\ last'.err = "certificate creation failed"
          /\ db'.events = OneMore(db, EventRow(NoId, "failed"))]_vars

C2_Witness ==
  /\ last.op = "create" /\ last.err = "certificate creation failed"
  /\ ~last.evFail /\ last.tx = "none"
  /\ BagIn(EventRow(NoId, "failed"), db.events)

\* C3: when the commit of Create fails after issuance and the saving of
\* the files succeeded, Create returns the commit error and an empty id,
\* and no row of the attempt is visible.
C3_CommitFailure ==
  [][\A req \in CreateRequests, evOk \in BOOLEAN :
       Create(req, "commit", evOk)
       => /\ last'.err = "commit tx"
          /\ last'.ret = NoId
          /\ last'.issued = 1
          /\ req.Domain \in files'
          /\ Rows(db') = Rows(db)]_vars

C3_Witness ==
  /\ last.op = "create" /\ last.err = "commit tx" /\ last.ret = NoId
  /\ last.tx = "rolledback"
  /\ Named(db, last.name) = {}

\* A domain Renew is to leave alone at the time `now`.
NotDue(domain, now) ==
  \/ now < domain.CertValidTo - RenewBeforeDays
  \/ ~domain.AutoRenew
  \/ domain.Status = "deleted"

Untouched == db' = db /\ files' = files /\ last'.issued = 0

\* C4 as stated: every call of RenewDomainCertificate, from the sweep or
\* from elsewhere, for a domain that is more than 30 days from expiry, or
\* not auto-renewed, or deleted, asks for no certificate and writes nothing.
C4_AsStated ==
  [][/\ \A f \in RenewFaults, evOk \in BOOLEAN :
          SweepStep(f, evOk) /\ NotDue(sweep.list[sweep.idx], sweep.now)
          => Untouched
     /\ \A domain \in DTOs(db) :
          RenewAdHoc(domain, "none", TRUE) /\ NotDue(domain, clock)
          => Untouched]_vars

\* C4 amended: the sweep asks for no certificate and writes nothing for a
\* listed domain that, by the listing and the time the sweep took, is more
\* than 30 days from expiry, or not auto-renewed, or deleted.
C4_SweepSkips ==
  [][\A f \in RenewFaults, evOk \in BOOLEAN :
       SweepStep(f, evOk) /\ NotDue(sweep.list[sweep.idx], sweep.now)
       => Untouched /\ last'.op = "skip"]_vars

C4_Witness ==
  /\ last.op = "skip"
  /\ \E r \in db.domains : r.id = last.ret /\ ~r.auto_renew /\ r.status = "active"
  /\ clock >= CertValidTo(db, last.ret) - RenewBeforeDays

\* C5 as stated: when Renew succeeds, the certificate row of the domain
\* carries the new validity window and the new path, the domain is active,
\* and exactly one `renewed` event of the domain has been added.
C5_AsStated ==
  [][\A f \in RenewFaults, evOk \in BOOLEAN :
       (SweepStep(f, evOk) /\ last'.op = "renew" /\ last'.err = "none")
       => /\ \A c \in db'.certs :
               c.domain_id = last'.ret
               => /\ c.valid_from = clock
                  /\ c.valid_to = clock + ValidityDays
                  /\ c.cert_path = CertPath(last'.name)
          /\ \A r \in db'.domains : r.id = last'.ret => r.status = "active"
          /\ db'.events = OneMore(db, EventRow(last'.ret, "renewed"))]_vars

\* C6 as stated: when the certificate authority or the saving of the files
\* fails during Renew, the committed status of the domain is
\* `update_failed` afterwards and Renew returns an error.
C6_AsStated ==
  [][\A f \in {"issue", "save"}, evOk \in BOOLEAN :
       SweepStep(f, evOk)
       => /\ last'.err # "none"
          /\ \A r \in db'.domains : r.id = last'.ret => r.status = "update_failed"]_vars

\* C7 as stated: whatever goes wrong in RenewDomainCertificate for one
\* domain, the sweep goes on to the next domain of its listing.
C7_AsStated ==
  [][\A f \in RenewFaults, evOk \in BOOLEAN :
       SweepStep(f, evOk) => running' /\ sweep'.idx = sweep.idx + 1]_vars

\* C8 as stated: after a successful Delete the domain row and every
\* alternative-domain row of the domain have the status `deleted`, these
\* rows and the certificate row of the domain, when there is one, carry one
\* and the same deletion timestamp, and the `deleted` event has been added.
C8_AsStated ==
  [][\A filters \in DeleteRequests(db) :
       (Delete(filters, "none") /\ last'.err = "none")
       => \E r \in db'.domains :
            /\ r.id = last'.ret
            /\ r.status = "deleted" /\ r.deleted_at # NoTime
            /\ \A a \in db'.alts :
                 a.domain_id = r.id
                 => a.status = "deleted" /\ a.deleted_at = r.deleted_at
            /\ \A c \in db'.certs :
                 c.domain_id = r.id => c.deleted_at = r.deleted_at
            /\ db'.events = OneMore(db, EventRow(r.id, "deleted"))]_vars

\* C9: when the newest domain named n has just been deleted, a Create of n
\* that meets no failure and names a provider of the registry is not
\* rejected: it returns the id of a new active domain named n.
C9_CreateAfterDelete ==
  [][\A req \in CreateRequests :
       (/\ last.op = "delete" /\ last.err = "none"
        /\ \E r \in Named(db, req.Domain) :
             r.id = last.ret /\ \A q \in Named(db, req.Domain) : q.id <= r.id
        /\ SelectClientByName(client, req.DNSProvider) # NoClient
        /\ Create(req, "none", TRUE))
       => /\ last'.err = "none"
          /\ last'.ret \notin {r.id : r \in db.domains} \cup {NoId}
          /\ Live(db', req.Domain)
               = {[DomainRow(last'.ret, req) EXCEPT !.status = "active"]}]_vars

C9_Witness ==
  /\ last.op = "create" /\ last.err = "none"
  /\ \E r \in Named(db, last.name) : r.status = "deleted" /\ r.id < last.ret
  /\ \E r \in Live(db, last.name) : r.id = last.ret

\* What a call leaves and returns, the events table apart.
Same(o) == last'.err = o.err /\ last'.ret = o.id /\ Rows(db') = Rows(o.db)

\* C10 as stated: in Create, Delete and Renew an event insert that fails
\* leaves the result of the call and its other changes of the store as they
\* are when the insert succeeds.
C10_AsStated ==
  [][/\ \A req \in CreateRequests, f \in CreateFaults :
          Create(req, f, FALSE)
          => Same(CreateDomain(db, client, files, clock, req, f, TRUE))
     /\ \A filters \in DeleteRequests(db) :
          Delete(filters, "event")
          => Same(DeleteDomain(db, files, clock, filters, "none"))
     /\ SweepStep("event", TRUE)
          => Same(RenewDomainCertificate(db, client, files, clock,
                                         sweep.list[sweep.idx], "none", TRUE))]_vars

\* C10 amended: in Create an event insert that fails leaves the result of
\* the call and its other changes of the store as they are when the insert
\* succeeds; in Delete, and in Renew once the certificate is issued and
\* saved, the event is inserted in the transaction of the call, and when
\* the insert fails the call returns an error and leaves the store as it was.
C10_EventFailure ==
  [][/\ \A req \in CreateRequests, f \in CreateFaults :
          Create(req, f, FALSE)
          => /\ Same(CreateDomain(db, client, files, clock, req, f, TRUE))
             /\ db'.events = db.events
     /\ \A filters \in DeleteRequests(db) :
          Delete(filters, "event")
          => last'.err = "error inserting event" /\ db' = db
     /\ SweepStep("event", TRUE)
          => last'.err = "failed to insert event" /\ db' = db]_vars

C10_Witness ==
  /\ last.op = "create" /\ last.err = "none" /\ last.evFail
  /\ \E r \in Live(db, last.name) : r.id = last.ret /\ r.status = "active"
  /\ ~BagIn(EventRow(last.ret, "created"), db.events)

\* C11 as stated: in every committed state at most one domain row that is
\* not deleted has a given name, also when two calls of CreateDomain for
\* the name both pass the existence check before either commits.
C11_AsStated == \A n \in Names : Cardinality(Live(db, n)) <= 1

CertsOf(d, domainID) == {c \in d.certs : c.domain_id = domainID}

\* C12: after any sequence of Create, Renew and Delete every domain has
\* exactly one certificate row, the one Create inserted, and so at most
\* one that is not deleted: Renew inserts none.
C12_OneCertificate ==
  \A r \in db.domains :
    /\ Cardinality(CertsOf(db, r.id)) = 1
    /\ Cardinality({c \in CertsOf(db, r.id) : c.deleted_at = NoTime}) <= 1

C12_Witness ==
  /\ last.op = "renew" /\ last.err = "none" /\ last.tx = "committed"
  /\ Cardinality(CertsOf(db, last.ret)) = 1
  /\ \E c \in CertsOf(db, last.ret) : c.deleted_at = NoTime

\* The errors RenewDomainCertificate returns when the renewal itself failed.
RenewalFailures ==
  {"failed to begin tx", "failed to create new certificate",
   "failed to save cert files"} \cup {RenewTxErr(f) : f \in RenewTxFaults}

\* C13: when the reload of the reverse proxy fails after the commit of
\* Renew, Renew returns an error that is none of the errors of a failed
\* renewal, and what the transaction wrote stays committed: the update of
\* the certificate, the domain active, one `renewed` event.
C13_ReloadFailure ==
  [][SweepStep("reload", TRUE)
       => LET domain == sweep.list[sweep.idx]
          IN  /\ last'.err = "certificate renewed but nginx reload failed"
              /\ last'.err \notin RenewalFailures \cup {"none"}
              /\ last'.tx = "committed"
              /\ db' = Commit(db, RenewWrites(domain, CertificateData(clock)))
              /\ \A r \in db'.domains : r.id = domain.ID => r.status = "active"
              /\ db'.events = OneMore(db, EventRow(domain.ID, "renewed"))]_vars

C13_Witness ==
  /\ last.op = "renew"
  /\ last.err = "certificate renewed but nginx reload failed"
  /\ last.reloads = 1
  /\ BagIn(EventRow(last.ret, "renewed"), db.events)
  /\ \E r \in db.domains : r.id = last.ret /\ r.status = "active"

\* C14: DeleteDomain returns nil once its transaction is committed, with
\* the clean-up of the files handed to a goroutine it does not wait for;
\* and the goroutine, whether it removes the files, fails to, or finds no
\* client, changes neither the store nor what DeleteDomain returned.
C14_CleanupDetached ==
  [][/\ \A filters \in DeleteRequests(db) :
          (Delete(filters, "none") /\ last'.tx = "committed")
          => /\ last'.err = "none"
             /\ last'.spawned
             /\ filters.DomainName \in cleanup'
             /\ files' = files
             /\ \A r \in db'.domains : r.id = last'.ret => r.status = "deleted"
     /\ \A domain \in cleanup :
          CleanupTask(domain) \/ CleanupFails(domain)
          => db' = db /\ last' = last]_vars

\* DeleteDomain has returned nil and its goroutine has since failed.
C14_Witness ==
  /\ last.op = "delete" /\ last.err = "none" /\ last.name # ""
  /\ cleanup = {}
  /\ last.name \in files
  /\ \E r \in db.domains : r.id = last.ret /\ r.status = "deleted"

\* C15: event rows are append-only: every step of Create, Delete, Renew
\* and the sweep leaves each committed event row in the table, unchanged.
C15_EventsAppendOnly == [][db.events \sqsubseteq db'.events]_vars

\* Events of a created and of a deleted domain are still there after a
\* renewal has added its own.
C15_Witness ==
  /\ last.op = "renew"
  /\ \E e \in BagToSet(db.events) : e.event_type = "created"
  /\ \E e \in BagToSet(db.events) : e.event_type = "renewed"
  /\ BagCardinality(db.events) >= 3

\* C16 as stated: when the certificate authority fails during Renew,
\* exactly one `failed` event of the domain has been added to the
\* committed events when Renew has returned.
C16_AsStated ==
  [][SweepStep("issue", TRUE)
       => db'.events = OneMore(db, EventRow(sweep.list[sweep.idx].ID, "failed"))]_vars

\* The errors of the steps between BeginTx and the return of a call.
ErrorsInTx ==
  {CreateTxErr(f) : f \in CreateTxFaults}
  \cup {DeleteErr(f) : f \in DeleteFaults \ {"none", "begin"}}
  \cup {"domain doesn't exist"}
  \cup {RenewTxErr(f) : f \in RenewTxFaults}
  \cup {"failed to create new certificate", "failed to save cert files", "panic"}

\* The errors of the steps before it, BeginTx included.
ErrorsBeforeTx ==
  {"check domain exists", "domain already exists", "select DNS client",
   "certificate creation failed", "save certificate files", "begin tx",
   "failed to begin transaction", "failed to begin tx"}

\* C17: a call of CreateDomain, DeleteDomain or RenewDomainCertificate
\* that opened a transaction returns with it committed when all went well
\* and rolled back when a step failed after BeginTx, never with it open; a
\* call that failed before has none; and the error returned after a
\* rollback is the error of the step that failed, whether or not the
\* rollback itself succeeded.
C17_TxFinished ==
  last.op \in {"create", "delete", "renew"}
  => /\ last.tx \in {"none", "committed", "rolledback"}
     /\ last.err = "none" => last.tx = "committed"
     /\ last.err = "certificate renewed but nginx reload failed"
          => last.tx = "committed"
     /\ last.tx = "committed"
          => last.err \in {"none", "certificate renewed but nginx reload failed"}
     /\ last.tx = "rolledback" <=> last.err \in ErrorsInTx
     /\ last.tx = "none" <=> last.err \in ErrorsBeforeTx

C17_Witness ==
  /\ last.op = "renew" /\ last.tx = "rolledback"
  /\ last.err = "failed commit"

\* C18: when a step of DeleteDomain fails after BeginTx (the listing of
\* the alternative domains, the status updates, the certificate lookup or
\* update, the event insert, the commit), DeleteDomain returns the error
\* of that step, the store is as it was before the call, `deleted` event
\* included, and no clean-up goroutine is started.
C18_DeleteAllOrNothing ==
  [][\A filters \in DeleteRequests(db),
        f \in {"subs", "update", "certs", "update_cert", "event", "commit"} :
       Delete(filters, f)
       => /\ last'.err = DeleteErr(f)
          /\ last'.tx = "rolledback"
          /\ db' = db
          /\ ~last'.spawned /\ cleanup' = cleanup /\ files' = files]_vars

C18_Witness ==
  /\ last.op = "delete" /\ last.err = "commit error"
  /\ cleanup = {}
  /\ \E r \in db.domains : r.id = last.ret /\ r.status = "active"
  /\ ~BagIn(EventRow(last.ret, "deleted"), db.events)

\* C19: when DeleteDomain is called with a name that resolves to no id,
\* it returns "domain doesn't exist", its transaction is rolled back, the
\* store is as it was, and no clean-up goroutine is started.
C19_DeleteNotFound ==
  [][\A filters \in DeleteRequests(db) :
       (/\ filters.DomainName # ""
        /\ GetIDByNameTx(db, filters.DomainName) = NoId
        /\ Delete(filters, "none"))
       => /\ last'.err = "domain doesn't exist"
          /\ last'.tx = "rolledback"
          /\ db' = db
          /\ ~last'.spawned /\ cleanup' = cleanup /\ files' = files]_vars

\* The name is the one of a domain deleted before.
C19_Witness ==
  /\ last.op = "delete" /\ last.err = "domain doesn't exist"
  /\ last.tx = "rolledback" /\ last.ret = NoId
  /\ Named(db, last.name) # {} /\ Live(db, last.name) = {}

\* C20: when the saving of the files fails in Create, the certificate
\* issued, Create returns the "save certificate files" error and an empty
\* id, one `failed` event is added (its insert succeeding), no
\* transaction is opened and no domain, alternative-domain or certificate
\* row is written.
C20_SaveFailure ==
  [][\A req \in CreateRequests :
       Create(req, "save", TRUE)
       => /\ last'.err = "save certificate files"
          /\ last'.ret = NoId
          /\ last'.issued = 1
          /\ last'.tx = "none"
          /\ Rows(db') = Rows(db)
          /\ db'.events = OneMore(db, EventRow(NoId, "failed"))]_vars

C20_Witness ==
  /\ last.op = "create" /\ last.err = "save certificate files"
  /\ last.tx = "none" /\ ~last.evFail
  /\ Named(db, last.name) = {}
  /\ BagIn(EventRow(NoId, "failed"), db.events)

\* C21: when an insert or the status update inside the transaction of
\* Create fails (the domain insert, an alternative-domain insert, the
\* certificate insert, the update to active), the transaction is rolled
\* back, Create returns the error of that step and an empty id, and no
\* domain, alternative-domain or certificate row of the attempt is visible.
C21_InsertFailure ==
  [][\A req \in CreateRequests, evOk \in BOOLEAN,
        f \in {"insert_domain", "insert_alt", "insert_cert", "update"} :
       Create(req, f, evOk)
       => /\ last'.tx = "rolledback"
          /\ last'.err = CreateTxErr(f) /\ last'.err # "none"
          /\ last'.ret = NoId
          /\ Rows(db') = Rows(db)]_vars

\* The status update failed, after every insert of the attempt.
C21_Witness ==
  /\ last.op = "create" /\ last.err = "update domain status"
  /\ last.tx = "rolledback" /\ last.ret = NoId
  /\ Named(db, last.name) = {}
  /\ db.domains # {}
  /\ \A x \in db.alts \cup db.certs : \E r \in db.domains : r.id = x.domain_id

\* C22: when Create has committed and the insert of the `created` event
\* fails, Create still returns the id of the new domain and no error, and
\* the domain, alternative-domain and certificate rows it committed are in
\* place: the domain active, one row per alternative name, one certificate.
C22_CreatedEventFailure ==
  [][\A req \in CreateRequests :
       Create(req, "none", FALSE)
       => LET ws == CreateWrites(db, req, CertificateData(clock))
          IN  /\ last'.err = "none"
              /\ last'.ret = NextId(db) /\ last'.ret # NoId
              /\ last'.tx = "committed"
              /\ Rows(db') = Rows(Commit(db, ws))
              /\ [DomainRow(last'.ret, req) EXCEPT !.status = "active"] \in db'.domains
              /\ Cardinality({a \in db'.alts : a.domain_id = last'.ret})
                   = Len(req.AltDomains)
              /\ Cardinality(CertsOf(db', last'.ret)) = 1
              /\ db'.events = db.events]_vars

\* A domain with two alternative names has been created, its event lost.
C22_Witness ==
  /\ last.op = "create" /\ last.evFail /\ last.err = "none" /\ last.ret # NoId
  /\ Cardinality({a \in db.alts : a.domain_id = last.ret}) = 2
  /\ Cardinality(CertsOf(db, last.ret)) = 1
  /\ db.events = EmptyBag

\* C23: at most one sweep is in progress and within it Renew runs for one
\* domain at a time: a sweep starts only when none is in progress, a tick
\* of the ticker that arrives during a sweep starts none and leaves the
\* sweep in progress, the store and the calls made as they are, and a step
\* of the sweep calls RenewDomainCertificate for at most one domain, the
\* one the loop is at.
C23_OneSweep ==
  [][/\ TickerFires
          => /\ sweep.active /\ sweep'.active
             /\ [sweep' EXCEPT !.ticked = FALSE] = [sweep EXCEPT !.ticked = FALSE]
             /\ sweeps' = sweeps
             /\ db' = db /\ files' = files /\ last' = last
     /\ \A f \in {"none", "list"} :
          SweepStart(f) => ~sweep.active /\ sweeps' = sweeps + 1
     /\ \A f \in RenewFaults, evOk \in BOOLEAN :
          SweepStep(f, evOk)
          => /\ sweep'.list = sweep.list /\ sweep'.now = sweep.now
             /\ sweeps' = sweeps
             /\ sweep'.invoked \ sweep.invoked \subseteq {sweep.list[sweep.idx].ID}
             /\ last'.issued <= 1]_vars

\* A tick arrived during the sweep, which went on with its second domain
\* after a renewal of the first.
C23_Witness ==
  /\ sweep.active /\ sweep.ticked /\ sweep.idx = 2
  /\ sweep.invoked = {sweep.list[1].ID}
  /\ sweeps = 1
  /\ last.op = "renew" /\ last.ret = sweep.list[1].ID

\* C24: when Renew commits for a domain that has no container name, it
\* returns nil and runs no reload command.
C24_NoContainerNoReload ==
  [][\A f \in RenewFaults, evOk \in BOOLEAN :
       (/\ SweepStep(f, evOk)
        /\ last'.op = "renew" /\ last'.tx = "committed"
        /\ sweep.list[sweep.idx].NginxContainerName = "")
       => /\ last'.err = "none"
          /\ last'.reloads = 0
          /\ f = "none"]_vars

C24_Witness ==
  /\ last.op = "renew" /\ last.tx = "committed" /\ last.err = "none"
  /\ last.reloads = 0
  /\ \E r \in db.domains : r.id = last.ret /\ r.nginx_container_name = ""
  /\ BagIn(EventRow(last.ret, "renewed"), db.events)

\* C25: SelectClientByName is a lookup in the registry as it is: for the
\* name "no" it returns the first client and no error; for another name
\* it returns the first client whose name is that very name and no error;
\* for a name no client has it returns nil and "client not found"; and it
\* leaves the registry as it was.
C25_Lookup ==
  [][\A name \in LookupNames :
       Select(name)
       => LET i == last'.ret
          IN  /\ client' = client
              /\ name = Sentinel => i = 1 /\ last'.err = "none"
              /\ (name # Sentinel /\ \E k \in 1..Len(client) : client[k] = name)
                   => /\ i \in 1..Len(client) /\ client[i] = name
                      /\ \A k \in 1..(i - 1) : client[k] # name
                      /\ last'.err = "none"
              /\ (name # Sentinel /\ \A k \in 1..Len(client) : client[k] # name)
                   => /\ i = 0 /\ last'.err = "client not found"
                      /\ SelectClientByName(client, name) = NoClient
              /\ i # 0 => SelectClientByName(client, name) = client[i]]_vars

\* Two clients have the name looked up, a client of another name before
\* them: the first of the two is returned.
C25_Witness ==
  /\ last.op = "select" /\ last.name = "cf" /\ last.ret = 2
  /\ client = <<"CF", "cf", "cf">>

\* C26 as stated: a domain that is deleted stays deleted in every later
\* step, and a step of a sweep that listed the domain before its deletion
\* asks for no certificate for it.
C26_AsStated ==
  [][/\ \A r \in db.domains :
          r.status = "deleted"
          => \A q \in db'.domains : q.id = r.id => q.status = "deleted"
     /\ \A f \in RenewFaults, evOk \in BOOLEAN :
          (/\ SweepStep(f, evOk)
           /\ RowById(db, sweep.list[sweep.idx].ID).status = "deleted")
          => last'.issued = 0]_vars

\* C27 as stated: the clean-up goroutine of a Delete that has just
\* committed, by name or by id with an empty name, removes no directory
\* but the one of the domain deleted.
C27_AsStated ==
  [][\A domain \in cleanup :
       (/\ last.op = "delete" /\ last.tx = "committed"
        /\ CleanupTask(domain))
       => files \ files' \subseteq {RowById(db, last.ret).domain_name}]_vars

\* C28 as stated: after a renewal of a domain by the sweep has succeeded,
\* the listing returns the new end of validity for the domain, and a sweep
\* at any time more than 30 days before it skips the domain.
C28_AsStated ==
  [][\A f \in RenewFaults, evOk \in BOOLEAN :
       (SweepStep(f, evOk) /\ last'.op = "renew" /\ last'.err = "none")
       => LET domain == DomainsDTO(db', RowById(db', last'.ret))
              validTo == CertificateData(clock).ValidTo
          IN  /\ domain.CertValidTo = validTo
              /\ \A now \in clock..(validTo - RenewBeforeDays - 1) :
                   Skipped(domain, now)]_vars

\* C29: no committed state has a domain of status `pending`: whatever
\* calls of Create, Delete and the clean-up have succeeded or failed, at
\* whatever step, every committed domain row is active, update_failed or
\* deleted.
C29_NeverPending ==
  \A r \in db.domains : r.status \in {"active", "update_failed", "deleted"}

\* A Create has failed at its status update, after inserting the row as
\* pending, next to a domain created before.
C29_Witness ==
  /\ last.op = "create" /\ last.err = "update domain status"
  /\ \E r \in db.domains : r.status = "active" /\ r.domain_name # last.name
  /\ Named(db, last.name) = {}

\* The least number of pages of size n that hold t elements.
Ceiling(t, n) == CHOOSE k \in 0..t : k * n >= t /\ (k = 0 \/ (k - 1) * n < t)

\* C30 as stated: for every page >= 1, page size >= 1 and count >= 0,
\* GetDomains reports as totalPages the ceiling of count / pageSize,
\* hasNext exactly when page * pageSize < count, hasPrev exactly when
\* page > 1, nextPage = page + 1 when hasNext and 0 otherwise, and
\* prevPage = page - 1 when hasPrev and 0 otherwise.
C30_AsStated ==
  last.op = "list"
  => /\ last.TotalPages = Ceiling(last.TotalElements, last.PageSize)
     /\ last.HasNext <=> last.Page * last.PageSize < last.TotalElements
     /\ last.HasPrev <=> last.Page > 1
     /\ last.NextPage = IF last.HasNext THEN last.Page + 1 ELSE 0
     /\ last.PrevPage = IF last.HasPrev THEN last.Page - 1 ELSE 0

====
